---- MODULE Spec2Model ----
(***************************************************************************)
(* skill-sync: a central repository holds the canonical copy of a skill;   *)
(* platform directories hold symlinks to it; a JSON ledger records the     *)
(* synced targets.  This module models scripts/install_skill.py and        *)
(* scripts/uninstall_skill.py (with the helpers of scripts/config.py and   *)
(* the prober of scripts/list_synced.py) for one skill name s over an      *)
(* arbitrary starting filesystem, and the update probes and pulls of       *)
(* scripts/list_synced.py and scripts/update_skills.py over a set of       *)
(* skills with a git state each.                                           *)
(*                                                                         *)
(* A filesystem entry is one of                                            *)
(*   "absent"     nothing at the path                                      *)
(*   "dir"        a real directory (for a platform location also a real    *)
(*                file: create_symlink removes both, by rmtree or unlink)  *)
(*   "file"       a regular file (repository entry only: rmtree raises)    *)
(*   "link_canon" a symlink to <repo>/s                                    *)
(*   "link_ext1", "link_ext2"  symlinks to two existing outside dirs       *)
(*   "link_gone"  a symlink to a path that does not exist                  *)
(***************************************************************************)
EXTENDS Integers, Sequences, FiniteSets, TLC

\* Number of platforms of the registry that are modelled (config.py has ten).
NumPlatforms == 2

Platforms == 1..NumPlatforms

\* Number of skill names that list and update look at.
NumSkills == 2

Skills == 1..NumSkills

\* Largest number of commits a skill is behind or ahead of its upstream.
MaxCount == 3

\* Location id of the repository entry ("repo" in check_conflicts).
RepoLoc == 0

\* Location id of the repository root itself.
RootLoc == 0 - 1

RepoEntries == {"absent", "dir", "file", "link_ext1", "link_gone"}
PlatEntries == {"absent", "dir", "link_canon", "link_ext1", "link_ext2", "link_gone"}

\* Kinds of install source: a plain directory outside the repository, the
\* canonical path itself, a git URL, a .skill archive, a path that is missing.
Kinds == {"dir", "self", "git", "skill", "missing"}

VARIABLES
    repo,       \* entry at <repo>/s
    plat,       \* plat[p]: entry at <root of p>/s
    ledger,     \* the metadata file, as far as skill s is concerned
    pc,         \* position of the install run
    kind,       \* source kind of the run
    cloned,     \* a temporary clone directory exists
    conflicts,  \* result of check_conflicts, after main's self filter
    answer,     \* the overwrite decision: "none", "y" or "n"
    force,      \* main's force flag
    sel,        \* the selected platform ids (ask_sync_targets)
    todo,       \* sync_to_platforms: the ids still to be visited
    outcome,    \* how the run ended
    reached,    \* which of the three mutating functions were entered
    removed,    \* locations whose existing entry the run removed
    created,    \* platforms where the run called symlink_to successfully
    repo0, plat0, ledger0,   \* the state when the run started
    prev,       \* kind and selection of the previous run, if it completed
    ledgerT,    \* the ledger entry of another skill t: "none", "live", "stale"
    un,         \* the last command, when it was an uninstall of s
    partial,    \* <repo>/s is a directory that a failed copy left incomplete
    crash,      \* the install run that was interrupted, if any
    skills,     \* skills[n]: the repository entry of skill n and its git state
    tool,       \* the command that probes or updates: "list", "menu", "update"
    probe,      \* probe[n]: position and result of the update probe of skill n
    batch,      \* position of the batch of probes
    report,     \* report[n]: the status the batch has reported for skill n
    upc,        \* position of update_skills.py main
    names,      \* the skill names given to update_skills.py
    queue,      \* the targets that are still to be pulled
    results,    \* what main has printed: one record per skipped name and pull
    url,        \* the git URL that install is given
    repoT,      \* entry at <repo>/t of another skill t
    platT,      \* platT[p]: entry at <root of p>/t
    inv         \* two invocations that write the ledger at the same time

\* the state of list_synced.py and update_skills.py, and what install of s
\* leaves alone
xvars == <<skills, tool, probe, batch, report, upc, names, queue, results,
           url, repoT, platT, inv>>

\* the state of install_skill.py and uninstall_skill.py
ivars == <<repo, plat, ledger, pc, kind, cloned, conflicts, answer, force, sel,
           todo, outcome, reached, removed, created, repo0, plat0, ledger0,
           prev, ledgerT, un, partial, crash>>

vars == <<ivars, xvars>>

fsvars == <<repo, plat, ledger>>

----------------------------------------------------------------------------
(* pathlib semantics over the entries                                      *)

IsSymlink(e) == e \in {"link_canon", "link_ext1", "link_ext2", "link_gone"}

\* Path.exists() of <repo>/s: follows symlinks.
RepoExists(r) == r \in {"dir", "file", "link_ext1"}

\* Path.resolve() of <repo>/s.
RepoResolve(r) ==
    CASE r = "link_ext1" -> "ext1"
      [] r = "link_gone" -> "gone"
      [] OTHER -> "canon"

\* Path.resolve() of a platform location holding a symlink.
PlatResolve(e, r) ==
    CASE e = "link_canon" -> RepoResolve(r)
      [] e = "link_ext1" -> "ext1"
      [] e = "link_ext2" -> "ext2"
      [] e = "link_gone" -> "gone"
      [] OTHER -> "self"

\* Path.exists() of a platform location: follows symlinks.
PlatExists(e, r) ==
    \/ e = "dir"
    \/ e \in {"link_ext1", "link_ext2"}
    \/ e = "link_canon" /\ RepoExists(r)

\* check_path_status without the test that the resolved target exists
check_path_status_noexist(e, r) ==
    IF e = "absent" THEN "absent"
    ELSE IF IsSymlink(e)
         THEN IF PlatResolve(e, r) = "canon" THEN "owned_symlink"
              ELSE "foreign_symlink"
         ELSE "foreign_directory"

\* list_synced.check_path_status(path, expected_source = <repo>/s)
check_path_status(e, r) ==
    IF ~PlatExists(e, r) /\ ~IsSymlink(e) THEN "absent"
    ELSE IF IsSymlink(e)
         THEN IF ~PlatExists(e, r) THEN "broken_symlink"
              ELSE IF PlatResolve(e, r) = "canon" THEN "owned_symlink"
              ELSE "foreign_symlink"
         ELSE "foreign_directory"

\* The same classification for the repository entry itself.
repo_status(r) ==
    IF r = "absent" THEN "absent"
    ELSE IF IsSymlink(r)
         THEN IF RepoExists(r) THEN "foreign_symlink" ELSE "broken_symlink"
         ELSE "foreign_directory"

----------------------------------------------------------------------------
(* config.py                                                               *)

NoEntry == [ok |-> TRUE, has |-> FALSE, source |-> "none", targets |-> {}]
Malformed == [ok |-> FALSE, has |-> FALSE, source |-> "none", targets |-> {}]

Ledgers ==
    {NoEntry, Malformed} \cup
    [ok : {TRUE}, has : {TRUE}, source : {"canon", "elsewhere"},
     targets : SUBSET Platforms]

\* config.load_metadata: a file that does not parse loads as {}.
load_metadata(l) == IF l.ok THEN l ELSE NoEntry

\* the entry of the other skill as load_metadata returns it
load_other(l, t) == IF l.ok THEN t ELSE "none"

\* config.get_available_platforms / get_platform_paths: the registry is a
\* given input, every modelled platform is available, in registry order.
available_platforms == Platforms

----------------------------------------------------------------------------
(* install_skill.py                                                        *)

RECURSIVE platform_conflicts(_, _, _)
platform_conflicts(p, r, pl) ==
    IF p > NumPlatforms THEN <<>>
    ELSE (IF /\ PlatExists(pl[p], r)
             /\ ~(IsSymlink(pl[p]) /\ PlatResolve(pl[p], r) = RepoResolve(r))
          THEN <<p>> ELSE <<>>) \o platform_conflicts(p + 1, r, pl)

\* check_conflicts without the exemption of symlinks into the repository
RECURSIVE platform_conflicts_noexempt(_, _, _)
platform_conflicts_noexempt(p, r, pl) ==
    IF p > NumPlatforms THEN <<>>
    ELSE (IF PlatExists(pl[p], r) THEN <<p>> ELSE <<>>)
         \o platform_conflicts_noexempt(p + 1, r, pl)

check_conflicts_noexempt(r, pl) ==
    (IF RepoExists(r) THEN <<RepoLoc>> ELSE <<>>)
    \o platform_conflicts_noexempt(1, r, pl)

check_conflicts(r, pl) ==
    (IF RepoExists(r) THEN <<RepoLoc>> ELSE <<>>) \o platform_conflicts(1, r, pl)

\* main, lines 343-345: conflicts.pop("repo") when reinstalling from the repo
filter_self(c, k) ==
    IF k = "self" THEN SelectSeq(c, LAMBDA x : x # RepoLoc) ELSE c

ask_user_overwrite(response) == response = "y"

\* install_to_repo: the resulting repository entry, whether an existing
\* entry was removed, and whether the call raised.
install_to_repo(r, k, f) ==
    LET rm  == RepoExists(r) /\ f
        bad == rm /\ r = "file"                  \* rmtree of a regular file
        r1  == IF rm /\ ~bad THEN "absent" ELSE r
    IN  IF bad THEN [repo |-> r, removed |-> FALSE, raised |-> TRUE]
        ELSE IF k = "self"
             THEN [repo |-> r1, removed |-> rm, raised |-> FALSE]
        ELSE IF r1 = "absent"
             THEN [repo |-> "dir", removed |-> rm, raised |-> FALSE]
        ELSE IF r1 \in {"file", "link_gone"}
             THEN [repo |-> r1, removed |-> rm, raised |-> TRUE]
        ELSE IF k = "dir" /\ ~f                  \* copytree, dirs_exist_ok=False
             THEN [repo |-> r1, removed |-> rm, raised |-> TRUE]
        ELSE [repo |-> r1, removed |-> rm, raised |-> FALSE]

\* create_symlink without the "if not force: return" guard
create_symlink_noguard(e, r, f) ==
    IF PlatExists(e, r)
    THEN [entry |-> "link_canon", removed |-> TRUE, created |-> TRUE,
          raised |-> FALSE]
    ELSE IF e = "absent"
         THEN [entry |-> "link_canon", removed |-> FALSE, created |-> TRUE,
               raised |-> FALSE]
         ELSE [entry |-> e, removed |-> FALSE, created |-> FALSE, raised |-> TRUE]

\* create_symlink(source = <repo>/s, target, force): r is the repository
\* entry at the time of the call.
create_symlink(e, r, f) ==
    IF PlatExists(e, r)
    THEN IF ~f
         THEN [entry |-> e, removed |-> FALSE, created |-> FALSE, raised |-> FALSE]
         ELSE [entry |-> "link_canon", removed |-> TRUE, created |-> TRUE,
               raised |-> FALSE]
    ELSE IF e = "absent"
         THEN [entry |-> "link_canon", removed |-> FALSE, created |-> TRUE,
               raised |-> FALSE]
         ELSE [entry |-> e, removed |-> FALSE, created |-> FALSE, raised |-> TRUE]

\* os.path.exists(t) or os.path.islink(t) for the recorded path of platform p
target_present(pl, p) == pl[p] # "absent"

\* update_sync_metadata replacing the recorded targets instead of merging
update_sync_metadata_replace(l, selected, pl) ==
    [ok |-> TRUE, has |-> TRUE, source |-> "canon",
     targets |-> {t \in selected \cap available_platforms : target_present(pl, t)}]

update_sync_metadata(l, selected, pl) ==
    LET metadata == load_metadata(l)
        current_targets == metadata.targets \cup (selected \cap available_platforms)
    IN  [ok |-> TRUE, has |-> TRUE, source |-> "canon",
         targets |-> {t \in current_targets : target_present(pl, t)}]

\* the ids of a set in registry order
RECURSIVE in_order(_, _)
in_order(p, S) ==
    IF p > NumPlatforms THEN <<>>
    ELSE (IF p \in S THEN <<p>> ELSE <<>>) \o in_order(p + 1, S)

----------------------------------------------------------------------------
(* the install run: main                                                   *)

TypeOK ==
    /\ repo \in RepoEntries
    /\ plat \in [Platforms -> PlatEntries]
    /\ ledger \in Ledgers
    /\ pc \in {"idle", "check", "ask", "repo", "targets", "sync", "metadata", "done"}
    /\ kind \in Kinds \cup {"none"}
    /\ cloned \in BOOLEAN
    /\ answer \in {"none", "y", "n"}
    /\ force \in BOOLEAN
    /\ sel \subseteq Platforms
    /\ outcome \in {"none", "complete", "cancelled", "notfound", "clone_failed",
                   "raised", "interrupted"}
    /\ ledgerT \in {"none", "live", "stale"}
    /\ partial \in BOOLEAN
    /\ reached \subseteq {"install_to_repo", "sync_to_platforms", "update_sync_metadata"}
    /\ removed \subseteq Platforms \cup {RepoLoc, RootLoc}
    /\ created \subseteq Platforms

NoPrev == [kind |-> "none", sel |-> {}]

\* no uninstall was the last command
NoUn == [result |-> "none", offered |-> {}, targets |-> {}, wrote |-> FALSE,
         other0 |-> "none"]

\* no install run was interrupted
NoCrash == [kind |-> "none"]

\* A URL is a sequence of tokens: "/" separates segments, ".git" is the
\* extension, "s" stands for the text that names the skill.
UrlOfS == <<"https:", "/", "/", "host", "/", "s", ".git">>

\* no invocation is at its ledger step
NoInv == [overlap |-> FALSE,
          A |-> [op |-> "none", pc |-> "idle", s |-> NoEntry, t |-> "none"],
          B |-> [op |-> "none", pc |-> "idle", s |-> NoEntry, t |-> "none"]]

\* a skill name with no repository entry
NoSkill == [kind |-> "missing", fault |-> "none", behind |-> 0, ahead |-> 0]

NoResult == [code |-> "none", msg |-> "none", n |-> 0]

NoProbe == [pc |-> "none", res |-> NoResult]

\* neither list nor update is running
XRest ==
    /\ skills = [n \in Skills |-> NoSkill]
    /\ tool = "none"
    /\ probe = [n \in Skills |-> NoProbe]
    /\ batch = "idle"
    /\ report = [n \in Skills |-> NoResult]
    /\ upc = "idle" /\ names = <<>> /\ queue = <<>> /\ results = <<>>
    /\ url = UrlOfS /\ repoT = "absent" /\ platT = [p \in Platforms |-> "absent"]
    /\ inv = NoInv

Init ==
    /\ repo \in RepoEntries
    /\ plat \in [Platforms -> PlatEntries]
    /\ ledger \in Ledgers
    /\ pc = "idle"
    /\ kind = "none"
    /\ cloned = FALSE
    /\ conflicts = <<>>
    /\ answer = "none"
    /\ force = FALSE
    /\ sel = {}
    /\ todo = <<>>
    /\ outcome = "none"
    /\ reached = {}
    /\ removed = {}
    /\ created = {}
    /\ repo0 = repo
    /\ plat0 = plat
    /\ ledger0 = ledger
    /\ prev = NoPrev
    /\ ledgerT = "none"
    /\ un = NoUn
    /\ partial = FALSE
    /\ crash = NoCrash
    /\ XRest

\* main without the finally clause: the temporary directory of a git
\* install stays behind
Exit_nocleanup(o) ==
    /\ pc' = "done"
    /\ outcome' = o
    /\ cloned' = (cloned \/ o = "clone_failed")

\* the finally clause of main: the temporary directory is removed
Exit(o) ==
    /\ pc' = "done"
    /\ outcome' = o
    /\ cloned' = FALSE

\* main, lines 315-337: resolve the source; a git URL is cloned to a
\* temporary directory, a local path must exist.
BeginInstall(k, cloneOk) ==
    /\ UNCHANGED xvars
    /\ un' = NoUn
    /\ UNCHANGED <<ledgerT, partial, crash>>
    /\ pc \in {"idle", "done"}
    /\ k = "self" => repo = "dir"
    /\ k # "git" => cloneOk
    /\ prev' = IF outcome = "complete" THEN [kind |-> kind, sel |-> sel] ELSE NoPrev
    /\ kind' = k
    /\ repo0' = repo /\ plat0' = plat /\ ledger0' = ledger
    /\ conflicts' = <<>> /\ answer' = "none" /\ force' = FALSE
    /\ sel' = {} /\ todo' = <<>>
    /\ reached' = {} /\ removed' = {} /\ created' = {}
    /\ IF k = "missing" THEN Exit("notfound")
       ELSE IF ~cloneOk THEN Exit("clone_failed")
       ELSE /\ pc' = "check"
            /\ outcome' = "none"
            /\ cloned' = (k = "git")
    /\ UNCHANGED fsvars

\* main, lines 339-345
CheckConflicts ==
    /\ UNCHANGED xvars
    /\ UNCHANGED <<ledgerT, un, partial, crash>>
    /\ pc = "check"
    /\ conflicts' = filter_self(check_conflicts(repo, plat), kind)
    /\ pc' = IF conflicts' # <<>> THEN "ask" ELSE "repo"
    /\ UNCHANGED <<fsvars, kind, cloned, answer, force, sel, todo, outcome,
                   reached, removed, created, repo0, plat0, ledger0, prev>>

\* main without the sys.exit(0) after a declined overwrite
AskUserOverwrite_noexit(response) ==
    /\ UNCHANGED xvars
    /\ UNCHANGED <<ledgerT, un, partial, crash>>
    /\ pc = "ask"
    /\ answer' = response
    /\ force' = ask_user_overwrite(response)
    /\ pc' = "repo"
    /\ UNCHANGED <<fsvars, kind, cloned, conflicts, sel, todo, outcome, reached,
                   removed, created, repo0, plat0, ledger0, prev>>

\* main, lines 347-351
AskUserOverwrite(response) ==
    /\ UNCHANGED xvars
    /\ UNCHANGED <<ledgerT, un, partial, crash>>
    /\ pc = "ask"
    /\ answer' = response
    /\ IF ask_user_overwrite(response)
       THEN /\ force' = TRUE
            /\ pc' = "repo"
            /\ UNCHANGED <<outcome, cloned>>
       ELSE /\ Exit("cancelled")
            /\ UNCHANGED force
    /\ UNCHANGED <<fsvars, kind, conflicts, sel, todo, reached, removed,
                   created, repo0, plat0, ledger0, prev>>

\* main, lines 353-356
InstallToRepo ==
    /\ UNCHANGED xvars
    /\ partial' = (partial /\ install_to_repo(repo, kind, force).repo = repo
                       /\ ~install_to_repo(repo, kind, force).removed)
    /\ UNCHANGED <<ledgerT, un, crash>>
    /\ pc = "repo"
    /\ LET res == install_to_repo(repo, kind, force)
       IN  /\ repo' = res.repo
           /\ removed' = IF res.removed THEN removed \cup {RepoLoc} ELSE removed
           /\ IF res.raised
              THEN Exit("raised")
              ELSE pc' = "targets" /\ UNCHANGED <<outcome, cloned>>
    /\ reached' = reached \cup {"install_to_repo"}
    /\ UNCHANGED <<plat, ledger, kind, conflicts, answer, force, sel, todo,
                   created, repo0, plat0, ledger0, prev>>

\* sync_to_platforms visiting every available platform, selected or not
AskSyncTargets_all(selected) ==
    /\ UNCHANGED xvars
    /\ UNCHANGED <<ledgerT, un, partial, crash>>
    /\ pc = "targets"
    /\ selected \subseteq available_platforms
    /\ sel' = selected
    /\ todo' = in_order(1, available_platforms)
    /\ pc' = "sync"
    /\ reached' = reached \cup {"sync_to_platforms"}
    /\ UNCHANGED <<fsvars, kind, cloned, conflicts, answer, force, outcome,
                   removed, created, repo0, plat0, ledger0, prev>>

\* main, line 359, and the entry of sync_to_platforms
AskSyncTargets(selected) ==
    /\ UNCHANGED xvars
    /\ UNCHANGED <<ledgerT, un, partial, crash>>
    /\ pc = "targets"
    /\ selected \subseteq available_platforms
    /\ sel' = selected
    /\ todo' = in_order(1, selected)
    /\ pc' = "sync"
    /\ reached' = reached \cup {"sync_to_platforms"}
    /\ UNCHANGED <<fsvars, kind, cloned, conflicts, answer, force, outcome,
                   removed, created, repo0, plat0, ledger0, prev>>

\* one iteration of the loop of sync_to_platforms
SyncNext ==
    /\ UNCHANGED xvars
    /\ UNCHANGED <<ledgerT, un, partial, crash>>
    /\ pc = "sync"
    /\ todo # <<>>
    /\ LET p == Head(todo)
           res == create_symlink(plat[p], repo, force)
       IN  /\ plat' = [plat EXCEPT ![p] = res.entry]
           /\ removed' = IF res.removed THEN removed \cup {p} ELSE removed
           /\ created' = IF res.created THEN created \cup {p} ELSE created
           /\ IF res.raised
              THEN Exit("raised") /\ UNCHANGED todo
              ELSE /\ todo' = Tail(todo)
                   /\ UNCHANGED <<pc, outcome, cloned>>
    /\ UNCHANGED <<repo, ledger, kind, conflicts, answer, force, sel, reached,
                   repo0, plat0, ledger0, prev>>

\* sync_to_platforms returning before the loop has visited every id
SyncDone_early ==
    /\ UNCHANGED xvars
    /\ UNCHANGED <<ledgerT, un, partial, crash>>
    /\ pc = "sync"
    /\ pc' = "metadata"
    /\ UNCHANGED <<fsvars, kind, cloned, conflicts, answer, force, sel, todo,
                   outcome, reached, removed, created, repo0, plat0, ledger0, prev>>

\* sync_to_platforms returns
SyncDone ==
    /\ UNCHANGED xvars
    /\ UNCHANGED <<ledgerT, un, partial, crash>>
    /\ pc = "sync"
    /\ todo = <<>>
    /\ pc' = "metadata"
    /\ UNCHANGED <<fsvars, kind, cloned, conflicts, answer, force, sel, todo,
                   outcome, reached, removed, created, repo0, plat0, ledger0, prev>>

\* main, lines 366-374
UpdateSyncMetadata ==
    /\ UNCHANGED xvars
    /\ ledgerT' = load_other(ledger, ledgerT)
    /\ UNCHANGED <<un, partial, crash>>
    /\ pc = "metadata"
    /\ ledger' = update_sync_metadata(ledger, sel, plat)
    /\ reached' = reached \cup {"update_sync_metadata"}
    /\ Exit("complete")
    /\ UNCHANGED <<repo, plat, kind, conflicts, answer, force, sel, todo,
                   removed, created, repo0, plat0, ledger0, prev>>

Next ==
    \/ \E k \in Kinds, cloneOk \in BOOLEAN : BeginInstall(k, cloneOk)
    \/ CheckConflicts
    \/ \E response \in {"y", "n"} : AskUserOverwrite(response)
    \/ InstallToRepo
    \/ \E selected \in SUBSET Platforms : AskSyncTargets(selected)
    \/ SyncNext
    \/ SyncDone
    \/ UpdateSyncMetadata

Spec == Init /\ [][Next]_vars

----------------------------------------------------------------------------
(* uninstall_skill.py                                                      *)

\* PLATFORMS of uninstall_skill.py: besides 'repo' it lists claude,
\* antigravity and gemini, the 1st, 3rd and 7th platform of the registry of
\* config.py.
UNINSTALL_PLATFORMS == Platforms \cap {1, 3, 7}

\* get_skill_locations: the locations offered for removal
get_skill_locations(r, pl) ==
    (IF r # "absent" THEN {RepoLoc} ELSE {})
    \cup {p \in UNINSTALL_PLATFORMS : pl[p] # "absent"}

\* remove_path: a symlink or file is unlinked, a directory removed
remove_path(e) ==
    IF e = "absent" THEN [entry |-> e, removed |-> FALSE]
    ELSE [entry |-> "absent", removed |-> TRUE]

\* the loop of uninstall_skill with a remove_path that resolves the path
\* first, so that removing a link into the repository removes the copy
uninstall_repo_follow(r, pl, targets) ==
    IF RepoLoc \in targets \/ \E p \in targets \ {RepoLoc} : pl[p] = "link_canon"
    THEN "absent" ELSE r

\* the loop of uninstall_skill, lines 137-151: the repository entry after it
uninstall_repo(r, pl, targets) ==
    IF RepoLoc \in targets THEN remove_path(r).entry ELSE r

\* the loop of uninstall_skill, lines 137-151: the platform entries after it
uninstall_plat(pl, targets) ==
    [p \in Platforms |-> IF p \in targets THEN remove_path(pl[p]).entry ELSE pl[p]]

\* the metadata update of uninstall_skill that prunes also when the
\* repository location was selected
uninstall_metadata_keep(l, targets, r, pl) ==
    IF ~l.has THEN l
    ELSE [l EXCEPT !.targets = {t \in l.targets : PlatExists(pl[t], r)}]

\* uninstall_skill, lines 153-169: the entry of s after the update; r and pl
\* are the entries after the removals
uninstall_metadata(l, targets, r, pl) ==
    IF ~l.has THEN l
    ELSE IF RepoLoc \in targets THEN NoEntry
    ELSE [l EXCEPT !.targets = {t \in l.targets : PlatExists(pl[t], r)}]

\* the install run is reset: the last command is the uninstall
RunReset ==
    /\ pc' = "idle" /\ kind' = "none" /\ cloned' = FALSE
    /\ conflicts' = <<>> /\ answer' = "none" /\ force' = FALSE
    /\ sel' = {} /\ todo' = <<>> /\ outcome' = "none"
    /\ reached' = {} /\ removed' = {} /\ created' = {}
    /\ repo0' = repo /\ plat0' = plat /\ ledger0' = ledger
    /\ prev' = NoPrev

\* uninstall_skill.py main: the locations are enumerated, the user selects
\* targets and confirms, uninstall_skill loads the ledger, removes the
\* selected locations and rewrites the ledger.
UninstallSkill(targets, response) ==
    /\ UNCHANGED xvars
    /\ pc \in {"idle", "done"}
    /\ crash = NoCrash
    /\ targets \subseteq get_skill_locations(repo, plat)
    /\ RunReset
    /\ LET offered == get_skill_locations(repo, plat)
           stop == IF offered = {} THEN "notfound"
                   ELSE IF targets = {} \/ response # "y" THEN "cancelled"
                   ELSE IF ~ledger.ok THEN "raised"      \* json.load raises
                   ELSE "complete"
           r1 == uninstall_repo(repo, plat, targets)
           p1 == uninstall_plat(plat, targets)
       IN  /\ un' = [result |-> stop, offered |-> offered, targets |-> targets,
                     wrote |-> (stop = "complete" /\ ledger.has),
                     other0 |-> ledgerT]
           /\ IF stop = "complete"
              THEN /\ repo' = r1
                   /\ plat' = p1
                   /\ partial' = (partial /\ r1 = repo)
                   /\ ledger' = uninstall_metadata(ledger, targets, r1, p1)
              ELSE UNCHANGED <<repo, plat, partial, ledger>>
    /\ UNCHANGED <<ledgerT, crash>>

\* Starting states of the commands with a ledger that also holds an entry
\* of another skill t, whose recorded targets are all present ("live") or
\* not ("stale").  The entries of s are drawn from the kinds that uninstall
\* tells apart: nothing, a real directory, a live link, a dangling link.
UInit ==
    /\ repo \in {"absent", "dir", "link_ext1"}
    /\ plat \in [Platforms -> {"absent", "dir", "link_canon", "link_gone"}]
    /\ ledger \in Ledgers
    /\ ledgerT \in (IF ledger.ok THEN {"none", "live", "stale"} ELSE {"none"})
    /\ pc = "idle" /\ kind = "none" /\ cloned = FALSE
    /\ conflicts = <<>> /\ answer = "none" /\ force = FALSE
    /\ sel = {} /\ todo = <<>> /\ outcome = "none"
    /\ reached = {} /\ removed = {} /\ created = {}
    /\ repo0 = repo /\ plat0 = plat /\ ledger0 = ledger
    /\ prev = NoPrev /\ un = NoUn /\ partial = FALSE /\ crash = NoCrash
    /\ XRest

UNext ==
    \/ \E k \in Kinds, cloneOk \in BOOLEAN : BeginInstall(k, cloneOk)
    \/ CheckConflicts
    \/ \E response \in {"y", "n"} : AskUserOverwrite(response)
    \/ InstallToRepo
    \/ \E selected \in SUBSET Platforms : AskSyncTargets(selected)
    \/ SyncNext
    \/ SyncDone
    \/ UpdateSyncMetadata
    \/ \E targets \in SUBSET (Platforms \cup {RepoLoc}), response \in {"y", "n"} :
          UninstallSkill(targets, response)

USpec == UInit /\ [][UNext]_vars

\* Starting states with an empty repository and an empty ledger; a
\* platform location is empty or holds a directory that was put there by
\* hand before the tool was used.
EInit ==
    /\ repo = "absent"
    /\ plat \in [Platforms -> {"absent", "dir"}]
    /\ ledger = NoEntry
    /\ ledgerT = "none"
    /\ pc = "idle" /\ kind = "none" /\ cloned = FALSE
    /\ conflicts = <<>> /\ answer = "none" /\ force = FALSE
    /\ sel = {} /\ todo = <<>> /\ outcome = "none"
    /\ reached = {} /\ removed = {} /\ created = {}
    /\ repo0 = repo /\ plat0 = plat /\ ledger0 = ledger
    /\ prev = NoPrev /\ un = NoUn /\ partial = FALSE /\ crash = NoCrash
    /\ XRest

ESpec == EInit /\ [][UNext]_vars

----------------------------------------------------------------------------
(* install_to_repo failing part-way                                        *)

\* install_to_repo when the copy (copytree, move across filesystems or
\* extractall) raises after it has started: the removal under force has
\* happened; the copy leaves what it had written so far (left: a directory
\* was created at <repo>/s) or nothing.
install_to_repo_fails(r, k, f, left) ==
    LET rm == RepoExists(r) /\ f
        r1 == IF rm THEN "absent" ELSE r
    IN  IF r1 = "absent" /\ left
        THEN [repo |-> "dir", removed |-> rm, partial |-> TRUE]
        ELSE [repo |-> r1, removed |-> rm, partial |-> FALSE]

\* main, lines 353-356, when the copy of install_to_repo raises part-way:
\* the exception leaves main through the finally clause
InstallToRepoFails(left) ==
    /\ UNCHANGED xvars
    /\ pc = "repo"
    /\ kind # "self"
    /\ ~install_to_repo(repo, kind, force).raised
    /\ LET res == install_to_repo_fails(repo, kind, force, left)
       IN  /\ repo' = res.repo
           /\ removed' = IF res.removed THEN removed \cup {RepoLoc} ELSE removed
           /\ partial' = (res.partial \/ (partial /\ res.repo = repo /\ ~res.removed))
    /\ reached' = reached \cup {"install_to_repo"}
    /\ Exit("raised")
    /\ UNCHANGED <<plat, ledger, kind, conflicts, answer, force, sel, todo,
                   created, repo0, plat0, ledger0, prev, ledgerT, un, crash>>

FNext ==
    \/ \E k \in Kinds, cloneOk \in BOOLEAN : BeginInstall(k, cloneOk)
    \/ CheckConflicts
    \/ \E response \in {"y", "n"} : AskUserOverwrite(response)
    \/ InstallToRepo
    \/ \E left \in BOOLEAN : InstallToRepoFails(left)
    \/ \E selected \in SUBSET Platforms : AskSyncTargets(selected)
    \/ SyncNext
    \/ SyncDone
    \/ UpdateSyncMetadata

FSpec == Init /\ [][FNext]_vars

----------------------------------------------------------------------------
(* an install run that is interrupted, and the same install run again      *)

\* what the interrupted run had decided
CrashRecord(chosen) ==
    [kind |-> kind, force |-> force, chosen |-> chosen, sel |-> sel,
     repo0 |-> repo0, plat0 |-> plat0, ledger0 |-> ledger0]

Interrupted ==
    /\ UNCHANGED xvars
    /\ pc' = "done"
    /\ outcome' = "interrupted"
    /\ UNCHANGED <<ledger, kind, cloned, conflicts, answer, force, sel, todo,
                   reached, created, repo0, plat0, ledger0, prev, ledgerT, un>>

\* the run is killed between two steps of main: after install_to_repo
\* ("targets"), between two calls of create_symlink ("sync"), before
\* update_sync_metadata ("metadata")
InterruptBetweenSteps ==
    /\ crash = NoCrash
    /\ pc \in {"targets", "sync", "metadata"}
    /\ crash' = CrashRecord(pc # "targets")
    /\ Interrupted
    /\ UNCHANGED <<repo, plat, removed, partial>>

\* the run is killed inside install_to_repo, after the removal of lines
\* 153-157 and before the copy
InterruptInRepoStep ==
    /\ crash = NoCrash
    /\ pc = "repo"
    /\ RepoExists(repo) /\ force /\ repo # "file"
    /\ repo' = "absent"
    /\ partial' = FALSE
    /\ removed' = removed \cup {RepoLoc}
    /\ crash' = CrashRecord(FALSE)
    /\ Interrupted
    /\ UNCHANGED plat

\* the run is killed inside create_symlink, after the removal of lines
\* 190-196 and before symlink_to
InterruptInSymlink ==
    /\ crash = NoCrash
    /\ pc = "sync" /\ todo # <<>>
    /\ PlatExists(plat[Head(todo)], repo) /\ force
    /\ plat' = [plat EXCEPT ![Head(todo)] = "absent"]
    /\ removed' = removed \cup {Head(todo)}
    /\ crash' = CrashRecord(TRUE)
    /\ Interrupted
    /\ UNCHANGED <<repo, partial>>

\* the first install
FirstRun(k, cloneOk) ==
    /\ pc = "idle"
    /\ BeginInstall(k, cloneOk)

\* the same command again: a source that was the canonical path is a
\* missing path when the canonical directory is gone
SameSource(k, r) == IF k = "self" /\ r # "dir" THEN "missing" ELSE k

Rerun ==
    /\ pc = "done" /\ outcome = "interrupted"
    /\ BeginInstall(SameSource(crash.kind, repo), TRUE)

\* the rerun selects what the interrupted run had selected
RerunTargets(selected) ==
    /\ crash # NoCrash
    /\ crash.chosen => selected = crash.sel
    /\ AskSyncTargets(selected)

FirstTargets(selected) ==
    /\ crash = NoCrash
    /\ AskSyncTargets(selected)

CInit ==
    /\ repo \in {"absent", "dir", "link_ext1"}
    /\ plat \in [Platforms -> {"absent", "dir", "link_canon", "link_ext1"}]
    /\ ledger \in {NoEntry, Malformed,
                   [ok |-> TRUE, has |-> TRUE, source |-> "canon", targets |-> Platforms]}
    /\ ledgerT = "none"
    /\ pc = "idle" /\ kind = "none" /\ cloned = FALSE
    /\ conflicts = <<>> /\ answer = "none" /\ force = FALSE
    /\ sel = {} /\ todo = <<>> /\ outcome = "none"
    /\ reached = {} /\ removed = {} /\ created = {}
    /\ repo0 = repo /\ plat0 = plat /\ ledger0 = ledger
    /\ prev = NoPrev /\ un = NoUn /\ partial = FALSE /\ crash = NoCrash
    /\ XRest

CNext ==
    \/ \E k \in Kinds, cloneOk \in BOOLEAN : FirstRun(k, cloneOk)
    \/ Rerun
    \/ CheckConflicts
    \/ \E response \in {"y", "n"} : AskUserOverwrite(response)
    \/ InstallToRepo
    \/ \E selected \in SUBSET Platforms : FirstTargets(selected)
    \/ \E selected \in SUBSET Platforms : RerunTargets(selected)
    \/ SyncNext
    \/ SyncDone
    \/ UpdateSyncMetadata
    \/ InterruptBetweenSteps
    \/ InterruptInRepoStep
    \/ InterruptInSymlink

CSpec == CInit /\ [][CNext]_vars

\* the run of main from r0, pl0, l0 with source kind k, force f and
\* selection S when nothing interrupts it
Uninterrupted(r0, pl0, l0, k, f, S) ==
    LET ir  == install_to_repo(r0, k, f)
        cs(p) == create_symlink(pl0[p], ir.repo, f)
        plF == [p \in Platforms |-> IF p \in S THEN cs(p).entry ELSE pl0[p]]
    IN  [completes |-> ~ir.raised /\ \A p \in S : ~cs(p).raised,
         repo |-> ir.repo,
         plat |-> plF,
         ledger |-> update_sync_metadata(l0, S, plF)]

----------------------------------------------------------------------------
(* install from a git URL: the name of the skill                           *)

\* the tokens after the last "/"
RECURSIVE LastSegment(_)
LastSegment(u) ==
    IF u = <<>> THEN <<>>
    ELSE IF u[Len(u)] = "/" THEN <<>>
    ELSE Append(LastSegment(SubSeq(u, 1, Len(u) - 1)), u[Len(u)])

\* get_skill_name_from_url: url.split("/")[-1] without a trailing ".git"
get_skill_name_from_url(u) ==
    LET name == LastSegment(u)
    IN  IF name # <<>> /\ name[Len(name)] = ".git"
        THEN SubSeq(name, 1, Len(name) - 1) ELSE name

Urls == {UrlOfS,
         <<"https:", "/", "/", "host", "/", "s">>,
         <<"https:", "/", "/", "host", "/", "s", "/">>,
         <<"https:", "/", "/", "host", "/", ".git">>,
         <<"git@host:", "s", "/", ".git">>}

\* config.SKILL_REPO / skill_name is a path below the repository root
StrictChild(name) == name # <<>>

\* main for a git URL whose name is empty: config.SKILL_REPO / "" is the
\* repository root and info["path"] / "" the skills directory of the
\* platform, both existing directories.  check_conflicts, install_to_repo
\* and create_symlink act on these; what is removed with the root is every
\* skill of the repository and the ledger file, what is removed with a
\* skills directory is every skill of that platform.  The ledger is then
\* written anew with the one entry of the empty name.
RootInstall(cloneOk, response, selected) ==
    /\ pc \in {"idle", "done"}
    /\ crash = NoCrash
    /\ ~StrictChild(get_skill_name_from_url(url))
    /\ LET dirs == [p \in Platforms |-> "dir"]
           c == check_conflicts("dir", dirs)
           go == cloneOk /\ (c = <<>> \/ ask_user_overwrite(response))
           f == c # <<>>
           ir == install_to_repo("dir", "git", f)
           hit == {p \in selected : create_symlink(dirs[p], ir.repo, f).removed}
       IN  /\ conflicts' = IF cloneOk THEN c ELSE <<>>
           /\ answer' = IF cloneOk /\ c # <<>> THEN response ELSE "none"
           /\ force' = (go /\ f)
           /\ outcome' = IF ~cloneOk THEN "clone_failed"
                         ELSE IF ~go THEN "cancelled" ELSE "complete"
           /\ sel' = IF go THEN selected ELSE {}
           /\ reached' = IF go THEN {"install_to_repo", "sync_to_platforms",
                                     "update_sync_metadata"} ELSE {}
           /\ IF go /\ ir.removed
              THEN /\ repo' = "absent" /\ repoT' = "absent"
                   /\ ledger' = NoEntry /\ ledgerT' = "none"
              ELSE UNCHANGED <<repo, repoT, ledger, ledgerT>>
           /\ plat' = [p \in Platforms |->
                          IF go /\ p \in hit THEN "absent" ELSE plat[p]]
           /\ platT' = [p \in Platforms |->
                           IF go /\ p \in hit THEN "absent" ELSE platT[p]]
           /\ removed' = IF go
                         THEN (IF ir.removed THEN {RootLoc} ELSE {})
                              \cup {p \in hit : plat[p] # "absent"}
                         ELSE {}
    /\ pc' = "done" /\ kind' = "git" /\ cloned' = FALSE
    /\ todo' = <<>> /\ created' = {}
    /\ repo0' = repo /\ plat0' = plat /\ ledger0' = ledger
    /\ prev' = NoPrev /\ un' = NoUn /\ partial' = FALSE
    /\ UNCHANGED <<crash, skills, tool, probe, batch, report, upc, names, queue,
                   results, url, inv>>

\* main for a local source, or for a git URL that names s
NamedInstall(k, cloneOk) ==
    /\ k = "git" => get_skill_name_from_url(url) = <<"s">>
    /\ BeginInstall(k, cloneOk)

\* Starting states with another skill t installed and synced everywhere.
NInit ==
    /\ repo \in {"absent", "dir"}
    /\ plat \in [Platforms -> {"absent", "dir", "link_canon"}]
    /\ ledger \in {NoEntry,
                   [ok |-> TRUE, has |-> TRUE, source |-> "canon", targets |-> Platforms]}
    /\ ledgerT = "live"
    /\ pc = "idle" /\ kind = "none" /\ cloned = FALSE
    /\ conflicts = <<>> /\ answer = "none" /\ force = FALSE
    /\ sel = {} /\ todo = <<>> /\ outcome = "none"
    /\ reached = {} /\ removed = {} /\ created = {}
    /\ repo0 = repo /\ plat0 = plat /\ ledger0 = ledger
    /\ prev = NoPrev /\ un = NoUn /\ partial = FALSE /\ crash = NoCrash
    /\ skills = [n \in Skills |-> NoSkill]
    /\ tool = "none"
    /\ probe = [n \in Skills |-> NoProbe]
    /\ batch = "idle"
    /\ report = [n \in Skills |-> NoResult]
    /\ upc = "idle" /\ names = <<>> /\ queue = <<>> /\ results = <<>>
    /\ url \in Urls
    /\ repoT = "dir"
    /\ platT = [p \in Platforms |-> "link"]
    /\ inv = NoInv

NNext ==
    \/ \E k \in Kinds, cloneOk \in BOOLEAN : NamedInstall(k, cloneOk)
    \/ \E cloneOk \in BOOLEAN, response \in {"y", "n"},
          selected \in SUBSET Platforms : RootInstall(cloneOk, response, selected)
    \/ CheckConflicts
    \/ \E response \in {"y", "n"} : AskUserOverwrite(response)
    \/ InstallToRepo
    \/ \E selected \in SUBSET Platforms : AskSyncTargets(selected)
    \/ SyncNext
    \/ SyncDone
    \/ UpdateSyncMetadata
    \/ \E targets \in SUBSET (Platforms \cup {RepoLoc}), response \in {"y", "n"} :
          UninstallSkill(targets, response)

NSpec == NInit /\ [][NNext]_vars

----------------------------------------------------------------------------
(* two invocations at their ledger step                                    *)

\* Invocation A installs or uninstalls s, invocation B installs or
\* uninstalls t (uninstall with the repository location selected).  Each
\* reads the whole ledger file (load_metadata), changes the entry of its
\* own skill and writes the whole file (save_metadata); nothing locks the
\* file between the two.
Invocations == {"A", "B"}
Other(i) == IF i = "A" THEN "B" ELSE "A"

\* save_metadata writing only the entry of the invocation's own skill
kept_drop(loaded, empty) == empty

\* json.dump(metadata): an entry the invocation did not change is written
\* as it was loaded
kept(loaded, empty) == loaded

\* whether the invocation calls save_metadata: install always, uninstall
\* when the loaded ledger has the entry (line 154)
saves(i) ==
    \/ inv[i].op = "install"
    \/ i = "A" /\ inv[i].s.has
    \/ i = "B" /\ inv[i].t # "none"

\* load_metadata: the one of uninstall_skill.py raises on a file that does
\* not parse, and the invocation ends there
LoadLedger(i) ==
    /\ inv[i].pc = "idle"
    /\ inv' = [inv EXCEPT ![i].pc = IF inv[i].op = "uninstall" /\ ~ledger.ok
                                    THEN "raised" ELSE "loaded",
                          ![i].s = load_metadata(ledger),
                          ![i].t = load_other(ledger, ledgerT),
                          !.overlap = inv.overlap \/ inv[Other(i)].pc = "loaded"]
    /\ UNCHANGED <<ivars, skills, tool, probe, batch, report, upc, names, queue,
                   results, url, repoT, platT>>

\* the entry of the own skill is changed and the file is written
SaveLedger(i) ==
    /\ inv[i].pc = "loaded"
    /\ inv' = [inv EXCEPT ![i].pc = "saved"]
    /\ IF ~saves(i) THEN UNCHANGED <<ledger, ledgerT>>
       ELSE IF i = "A"
       THEN /\ ledger' = IF inv[i].op = "install"
                         THEN update_sync_metadata(inv[i].s, Platforms, plat)
                         ELSE uninstall_metadata(inv[i].s, {RepoLoc}, "absent", plat)
            /\ ledgerT' = kept(inv[i].t, "none")
       ELSE /\ ledgerT' = IF inv[i].op = "install" THEN "live" ELSE "none"
            /\ ledger' = kept(inv[i].s, NoEntry)
    /\ UNCHANGED <<repo, plat, pc, kind, cloned, conflicts, answer, force, sel,
                   todo, outcome, reached, removed, created, repo0, plat0,
                   ledger0, prev, un, partial, crash>>
    /\ UNCHANGED <<skills, tool, probe, batch, report, upc, names, queue,
                   results, url, repoT, platT>>

LInit ==
    /\ repo = "dir"
    /\ plat \in [Platforms -> {"absent", "link_canon"}]
    /\ ledger \in Ledgers
    /\ ledgerT \in (IF ledger.ok THEN {"none", "live"} ELSE {"none"})
    /\ pc = "idle" /\ kind = "none" /\ cloned = FALSE
    /\ conflicts = <<>> /\ answer = "none" /\ force = FALSE
    /\ sel = {} /\ todo = <<>> /\ outcome = "none"
    /\ reached = {} /\ removed = {} /\ created = {}
    /\ repo0 = repo /\ plat0 = plat /\ ledger0 = ledger
    /\ prev = NoPrev /\ un = NoUn /\ partial = FALSE /\ crash = NoCrash
    /\ skills = [n \in Skills |-> NoSkill]
    /\ tool = "none"
    /\ probe = [n \in Skills |-> NoProbe]
    /\ batch = "idle"
    /\ report = [n \in Skills |-> NoResult]
    /\ upc = "idle" /\ names = <<>> /\ queue = <<>> /\ results = <<>>
    /\ url = UrlOfS /\ repoT = "dir" /\ platT = [p \in Platforms |-> "absent"]
    /\ \E a, b \in {"install", "uninstall"} :
          /\ a = "install" \/ b = "install"
          /\ inv = [NoInv EXCEPT !.A.op = a, !.B.op = b]

LNext ==
    \/ \E i \in Invocations : LoadLedger(i)
    \/ \E i \in Invocations : SaveLedger(i)

LSpec == LInit /\ [][LNext]_vars

----------------------------------------------------------------------------
(* Properties of install                                                   *)

Range(q) == {q[i] : i \in DOMAIN q}

\* the targets the ledger recorded for s when the run started
recorded0 == load_metadata(ledger0).targets

\* C1: when check_conflicts reported a conflict and the overwrite was
\* declined, the run is over with the repository entry, every platform
\* location and the ledger as they were at its start, and none of
\* install_to_repo, sync_to_platforms, update_sync_metadata was entered.
C1_DeclinedOverwriteChangesNothing ==
    (conflicts # <<>> /\ answer = "n") =>
        /\ pc = "done"
        /\ repo = repo0 /\ plat = plat0 /\ ledger = ledger0
        /\ reached = {}

C1_Witness ==
    /\ pc = "done" /\ outcome = "cancelled" /\ answer = "n"
    /\ \E p \in Range(conflicts) : p # RepoLoc /\ plat[p] = "dir"
    /\ repo = "dir" /\ ledger.has

\* C2: an install run removes an existing filesystem entry (the repository
\* entry or a platform location) only when it holds an overwrite
\* confirmation: a run with force = FALSE removes nothing.
C2_RemovalOnlyWithForce == removed # {} => force

C2_Witness ==
    /\ pc = "done" /\ outcome = "complete" /\ force
    /\ \E p \in removed \ {RepoLoc} :
          check_path_status(plat0[p], repo0) = "foreign_directory"
    /\ \E p \in removed \ {RepoLoc} :
          check_path_status(plat0[p], repo0) = "foreign_symlink"

\* C3 (as claimed): after a forced install, or an unforced install over a
\* conflict-free state, that ran to completion, every selected platform
\* location probes as owned_symlink.
C3_SelectedTargetsOwned ==
    (pc = "done" /\ outcome = "complete") =>
        \A p \in sel : check_path_status(plat[p], repo) = "owned_symlink"

\* C4: a platform that is not in the selection of the run holds the entry it
\* held when the run started, at every point of the run.
C4_UnselectedUntouched ==
    \A p \in Platforms : p \notin sel => plat[p] = plat0[p]

C4_Witness ==
    /\ pc = "done" /\ outcome = "complete" /\ force
    /\ \E p \in Range(conflicts) : p # RepoLoc /\ p \notin sel /\ plat[p] = "dir"
    /\ \E q \in sel : q \in created /\ q \in removed

\* C5 (as claimed): in a self-install the repository is not among the
\* reported conflicts and install_to_repo leaves the canonical directory in
\* place, whatever the value of force.
C5_SelfInstallKeepsRepo ==
    kind = "self" =>
        /\ RepoLoc \notin Range(conflicts)
        /\ "install_to_repo" \in reached => repo = repo0

\* C6 (as claimed): a run with the source and the selection of the completed
\* run before it, whose clone succeeded and whose overwrite prompt (if any)
\* was not declined, completes, creates no link and leaves repository,
\* platform locations and ledger as the first run left them.
C6_SecondInstallIdempotent ==
    (/\ pc = "done" /\ kind # "none" /\ prev.kind = kind
     /\ outcome \notin {"clone_failed", "cancelled"}
     /\ "sync_to_platforms" \in reached => sel = prev.sel) =>
        /\ outcome = "complete"
        /\ created = {}
        /\ repo = repo0 /\ plat = plat0 /\ ledger = ledger0

\* C7 (as claimed): the sync step neither unlinks nor recreates a selected
\* location that holds an owned symlink, for both values of force.
C7_OwnedLinkSkipped ==
    [][(/\ pc = "sync" /\ todo # <<>>
        /\ check_path_status(plat[Head(todo)], repo) = "owned_symlink") =>
            (removed' = removed /\ created' = created /\ plat' = plat)]_vars

\* C8: right after check_conflicts, a platform whose location is absent or
\* a symlink to the canonical path is not reported; a platform whose
\* location is a real directory or file, or a symlink that resolves to an
\* existing target other than what the canonical path resolves to, is
\* reported; the result is ordered, repository first, then registry order.
C8_ConflictDetection ==
    pc \in {"ask", "repo"} =>
        /\ \A p \in Platforms :
              /\ plat[p] \in {"absent", "link_canon"} => p \notin Range(conflicts)
              /\ plat[p] = "dir" => p \in Range(conflicts)
              /\ (plat[p] = "link_ext2" \/ (plat[p] = "link_ext1" /\ repo # "link_ext1"))
                    => p \in Range(conflicts)
        /\ \A i, j \in DOMAIN conflicts : i < j => conflicts[i] < conflicts[j]
        /\ (RepoExists(repo) /\ kind # "self") => conflicts[1] = RepoLoc

C8_Witness ==
    /\ pc = "ask" /\ Len(conflicts) >= 2 /\ conflicts[1] = RepoLoc
    /\ \E p \in Platforms : plat[p] = "link_canon" /\ p \notin Range(conflicts)
    /\ \E q \in Platforms : plat[q] \in {"link_ext1", "link_ext2"}
                            /\ q \in Range(conflicts)

\* C9 (as claimed): right after check_conflicts, every location whose state
\* is broken_symlink is among the reported conflicts.
C9_BrokenSymlinkIsConflict ==
    pc \in {"ask", "repo"} =>
        /\ \A p \in Platforms :
              check_path_status(plat[p], repo) = "broken_symlink"
                  => p \in Range(conflicts)
        /\ repo_status(repo) = "broken_symlink" => RepoLoc \in Range(conflicts)

\* C10: after a completed install the ledger entry of s has the canonical
\* path as source, and as targets the targets recorded before the run
\* together with the selected ones, restricted to the paths that exist or
\* are symlinks.
C10_LedgerMerge ==
    (pc = "done" /\ outcome = "complete") =>
        /\ ledger.ok /\ ledger.has
        /\ ledger.source = "canon"
        /\ ledger.targets = {t \in recorded0 \cup sel : plat[t] # "absent"}

C10_Witness ==
    /\ pc = "done" /\ outcome = "complete"
    /\ ledger0.source = "elsewhere"
    /\ sel # {}
    /\ \E t \in recorded0 \ sel : plat[t] # "absent" /\ t \in ledger.targets
    /\ sel \subseteq recorded0 /\ ledger.targets = recorded0

----------------------------------------------------------------------------
(* Properties of the ledger and of uninstall                               *)

\* the last step was a ledger write of install or of uninstall
LedgerJustWritten ==
    \/ pc = "done" /\ "update_sync_metadata" \in reached
    \/ un.wrote

\* C11 (as claimed): right after a ledger write of install or uninstall,
\* every recorded target of every entry, the entry of the other skill
\* included, exists or is a symlink.
C11_EveryEntryReconciled ==
    LedgerJustWritten =>
        /\ \A t \in ledger.targets : plat[t] # "absent"
        /\ ledgerT # "stale"

\* C12: a completed uninstall of s with the repository location among the
\* selected targets leaves no ledger entry of s, and the entry of the other
\* skill as it was.
C12_RepoUninstallDropsEntry ==
    (un.result = "complete" /\ RepoLoc \in un.targets) =>
        /\ ~ledger.has
        /\ ledger.ok
        /\ ledgerT = un.other0

C12_Witness ==
    /\ un.result = "complete" /\ RepoLoc \in un.targets
    /\ un.targets # {RepoLoc}
    /\ ledger0.has /\ ledger0.targets # {}
    /\ un.other0 = "live"

\* C13 (as claimed): a completed uninstall of s with exactly one platform
\* location selected keeps the source of the entry, drops the selected
\* platform from the recorded targets and keeps every other recorded target
\* that exists or is a (possibly dangling) symlink.
C13_PlatformUninstallShrinksByOne ==
    \A p \in Platforms :
        (un.result = "complete" /\ un.targets = {p} /\ ledger0.has) =>
            /\ ledger.has
            /\ ledger.source = ledger0.source
            /\ p \notin ledger.targets
            /\ \A t \in ledger0.targets \ {p} :
                  plat[t] # "absent" => t \in ledger.targets

\* C14: a completed uninstall leaves every location that was not selected
\* as it was: the repository entry when only platform locations were
\* selected, also when a removed location was a symlink to it, and every
\* platform location that was not selected, also when the repository entry
\* was removed; the selected locations are gone.
C14_UninstallTouchesSelectedOnly ==
    un.result = "complete" =>
        /\ RepoLoc \notin un.targets => repo = repo0
        /\ \A p \in Platforms : p \notin un.targets => plat[p] = plat0[p]
        /\ RepoLoc \in un.targets => repo = "absent"
        /\ \A p \in Platforms : p \in un.targets => plat[p] = "absent"

C14_Witness ==
    /\ un.result = "complete"
    /\ \E p \in un.targets : p # RepoLoc /\ plat0[p] = "link_canon"
    /\ RepoLoc \notin un.targets /\ repo = "dir"
    /\ \E q \in Platforms : q \notin un.targets /\ plat[q] = "link_canon"

\* C15 (as claimed): uninstall offers every present location of s: the
\* repository entry and the location of every available platform of the
\* registry.
C15_UninstallOffersAllPresent ==
    un.result # "none" =>
        /\ repo0 # "absent" => RepoLoc \in un.offered
        /\ \A p \in available_platforms : plat0[p] # "absent" => p \in un.offered

\* C16 (as claimed): a command that finds the ledger unparsable goes on as
\* with an empty ledger: install completes its ledger write, uninstall does
\* not raise.
C16_MalformedLedgerNotFatal ==
    ~ledger0.ok =>
        /\ un.result # "raised"
        /\ (pc = "done" /\ "update_sync_metadata" \in reached) => ledger.ok

----------------------------------------------------------------------------
(* Ordering, interruption and failure of install                           *)

\* C17: within an install run the repository entry changes only in the
\* repository step, before any platform location has changed and before
\* sync_to_platforms is entered; a platform location changes only in the
\* sync step, after install_to_repo has returned and before the ledger
\* write; the ledger is written only when no selected id is left to visit.
C17_StepOrder ==
    /\ []( /\ "update_sync_metadata" \in reached => (todo = <<>> /\ pc = "done")
           /\ created # {} => "install_to_repo" \in reached
           /\ pc \in {"check", "ask", "repo"} => (plat = plat0 /\ ledger = ledger0) )
    /\ [][ /\ repo' # repo =>
                /\ pc = "repo"
                /\ plat = plat0 /\ created = {}
                /\ reached = {}
           /\ plat' # plat =>
                /\ pc = "sync"
                /\ reached = {"install_to_repo", "sync_to_platforms"}
                /\ repo' = repo
           /\ "update_sync_metadata" \in reached' \ reached =>
                /\ pc = "metadata" /\ todo = <<>>
                /\ repo' = repo /\ plat' = plat ]_vars

C17_Witness ==
    /\ pc = "done" /\ outcome = "complete"
    /\ RepoLoc \in removed /\ repo = "dir"
    /\ Cardinality(created) >= 2
    /\ ledger # ledger0

\* C19: a git source is cloned into a temporary directory: while the run
\* is between the clone and the repository step the repository entry is the
\* one the run found; a failed clone ends the run with repository entry,
\* platform locations and ledger unchanged and none of the mutating steps
\* entered; no temporary directory is left when the run has ended.
C19_CloneStagedAndCleaned ==
    /\ cloned => kind = "git"
    /\ (kind = "git" /\ pc \in {"check", "ask", "repo"}) => (cloned /\ repo = repo0)
    /\ outcome = "clone_failed" =>
          /\ pc = "done" /\ kind = "git"
          /\ repo = repo0 /\ plat = plat0 /\ ledger = ledger0
          /\ reached = {}
    /\ pc = "done" => ~cloned

C19_Witness ==
    /\ pc = "done" /\ outcome = "clone_failed"
    /\ repo = "dir" /\ ledger.has
    /\ \E p \in Platforms : plat[p] = "link_canon"

\* C20 (as claimed): when install_to_repo raised, the run has written no
\* ledger entry, and the repository holds either the entry the run found,
\* intact, or no entry of the skill.
C20_FailedRepoStepLeavesNoPartialEntry ==
    (pc = "done" /\ outcome = "raised" /\ "sync_to_platforms" \notin reached) =>
        /\ "update_sync_metadata" \notin reached
        /\ ledger = ledger0
        /\ \/ repo = repo0 /\ RepoLoc \notin removed /\ ~partial
           \/ repo = "absent"

\* the uninterrupted run that the interrupted run stands for
Intended ==
    Uninterrupted(crash.repo0, crash.plat0, crash.ledger0, crash.kind,
                  crash.force, IF crash.chosen THEN crash.sel ELSE sel)

\* C18 (as claimed): when the rerun of an interrupted install has ended,
\* with the overwrite prompt (if any) confirmed, and the uninterrupted run
\* would have completed, the rerun has completed with the repository entry,
\* platform locations and ledger of the uninterrupted run.
C18_RerunAfterInterruptCompletes ==
    (/\ crash # NoCrash /\ pc = "done" /\ outcome # "interrupted"
     /\ answer # "n"
     /\ Intended.completes) =>
        /\ outcome = "complete"
        /\ repo = Intended.repo
        /\ plat = Intended.plat
        /\ ledger = Intended.ledger

----------------------------------------------------------------------------
(* list_synced.py and update_skills.py: the update probes                  *)

\* What git does in the directory of a skill.  behind and ahead are the
\* counts of HEAD..@{u} and @{u}..HEAD after a fetch; fault names the one
\* subprocess step that does not return a count:
\*   "fetch_fail"   git fetch exits non-zero (remote unreachable, refused)
\*   "fetch_hang"   git fetch does not return on its own
\*   "no_upstream"  no upstream is configured: rev-list exits non-zero
\*   "behind_bad", "ahead_bad"    rev-list prints something that is no number
\*   "behind_hang", "ahead_hang"  rev-list does not return on its own
\*   "ahead_fail"   the second rev-list exits non-zero
ProbeFaults == {"fetch_fail", "fetch_hang", "no_upstream", "behind_bad",
                "behind_hang", "ahead_fail", "ahead_bad", "ahead_hang"}

GitSkills ==
    [kind : {"git"}, fault : {"none"}, behind : 0..MaxCount, ahead : 0..MaxCount]
    \cup [kind : {"git"}, fault : ProbeFaults, behind : {0}, ahead : {0}]

PlainSkill == [kind |-> "plain", fault |-> "none", behind |-> 0, ahead |-> 0]

Res(c, m, k) == [code |-> c, msg |-> m, n |-> k]

\* The two probes, list_synced.check_git_remote_status ("list") and
\* update_skills.check_updates_available ("menu"), run the same three
\* subprocess steps.  Each step operator gives the position after the step
\* and, when the probe returns there, its result: (status_code, message)
\* for "list", (has_updates, detail) for "menu".
Returned(c, m, k) == [pc |-> "done", res |-> Res(c, m, k)]
Goes(to) == [pc |-> to, res |-> NoResult]

\* the value both probes return from an except clause
Failed(t, m) == Returned(IF t = "list" THEN "error" ELSE "no_update", m, 0)

\* git fetch with timeout=10: CalledProcessError or TimeoutExpired
fetch_step(sk, t) ==
    IF sk.fault = "fetch_fail" THEN Failed(t, "git_error")
    ELSE IF sk.fault = "fetch_hang" THEN Failed(t, "timeout")
    ELSE Goes("behind")

\* git rev-list --count HEAD..@{u} and int() of its output; a ValueError is
\* caught by "except Exception" in list_synced and together with
\* CalledProcessError in update_skills
behind_step(sk, t) ==
    IF sk.fault = "no_upstream" THEN Failed(t, "git_error")
    ELSE IF sk.fault = "behind_bad"
         THEN Failed(t, IF t = "list" THEN "error" ELSE "git_error")
    ELSE IF sk.behind > 0
         THEN IF t = "list" THEN Returned("update_available", "behind", sk.behind)
              ELSE Returned("has_update", "new_commits", sk.behind)
    ELSE Goes("ahead")

\* git rev-list --count @{u}..HEAD and int() of its output
ahead_step(sk, t) ==
    IF sk.fault = "ahead_fail" THEN Failed(t, "git_error")
    ELSE IF sk.fault = "ahead_bad"
         THEN Failed(t, IF t = "list" THEN "error" ELSE "git_error")
    ELSE IF sk.ahead > 0
         THEN Returned(IF t = "list" THEN "up_to_date" ELSE "no_update",
                       "ahead", sk.ahead)
    ELSE Returned(IF t = "list" THEN "up_to_date" ELSE "no_update", "even", 0)

\* the skills a batch submits a probe for: list_all_skills, lines 141-146,
\* every name whose repository entry exists; get_all_git_skills, lines
\* 124-130, every directory with a .git entry
submitted(sks, t) ==
    {n \in Skills : IF t = "list" THEN sks[n].kind # "missing"
                                  ELSE sks[n].kind = "git"}

\* the with block is entered and every probe is submitted to the pool
StartBatch(t) ==
    /\ UNCHANGED ivars
    /\ UNCHANGED <<url, repoT, platT, inv>>
    /\ UNCHANGED <<upc, names, queue, results>>
    /\ batch = "idle"
    /\ tool' = t
    /\ batch' = "probing"
    /\ probe' = [n \in Skills |->
                    IF n \in submitted(skills, t)
                    THEN [pc |-> "start", res |-> NoResult] ELSE NoProbe]
    /\ UNCHANGED <<skills, report>>

\* a worker takes the probe of skill n: check_git_remote_status returns
\* not_git for a directory without .git
ProbeStart(n) ==
    /\ UNCHANGED ivars
    /\ UNCHANGED <<url, repoT, platT, inv>>
    /\ UNCHANGED <<upc, names, queue, results>>
    /\ batch = "probing" /\ probe[n].pc = "start"
    /\ probe' = [probe EXCEPT ![n] =
                    IF skills[n].kind = "git" THEN Goes("fetch")
                    ELSE Returned("not_git", "none", 0)]
    /\ UNCHANGED <<skills, tool, batch, report>>

\* git fetch returns, fails, or is cut off after ten seconds
ProbeFetch(n) ==
    /\ UNCHANGED ivars
    /\ UNCHANGED <<url, repoT, platT, inv>>
    /\ UNCHANGED <<upc, names, queue, results>>
    /\ batch = "probing" /\ probe[n].pc = "fetch"
    /\ probe' = [probe EXCEPT ![n] = fetch_step(skills[n], tool)]
    /\ UNCHANGED <<skills, tool, batch, report>>

\* the first rev-list returns or fails; it has no timeout
ProbeBehind(n) ==
    /\ UNCHANGED ivars
    /\ UNCHANGED <<url, repoT, platT, inv>>
    /\ UNCHANGED <<upc, names, queue, results>>
    /\ batch = "probing" /\ probe[n].pc = "behind"
    /\ skills[n].fault # "behind_hang"
    /\ probe' = [probe EXCEPT ![n] = behind_step(skills[n], tool)]
    /\ UNCHANGED <<skills, tool, batch, report>>

\* the second rev-list returns or fails; it has no timeout
ProbeAhead(n) ==
    /\ UNCHANGED ivars
    /\ UNCHANGED <<url, repoT, platT, inv>>
    /\ UNCHANGED <<upc, names, queue, results>>
    /\ batch = "probing" /\ probe[n].pc = "ahead"
    /\ skills[n].fault # "ahead_hang"
    /\ probe' = [probe EXCEPT ![n] = ahead_step(skills[n], tool)]
    /\ UNCHANGED <<skills, tool, batch, report>>

\* the loop that reads the futures, stopping at the first skill whose
\* probe failed
collect_stop(pr, sks, t) ==
    [n \in Skills |->
        IF \E m \in 1..n : pr[m].pc = "done" /\ pr[m].res.msg \in
                                {"git_error", "timeout", "error"}
        THEN NoResult
        ELSE IF pr[n].pc = "done" THEN pr[n].res ELSE NoResult]

\* list_all_skills, lines 153-165, and ask_skills_to_update, lines 149-154:
\* the result of every future is read, in the order of the names
collect(pr, sks, t) ==
    [n \in Skills |-> IF pr[n].pc = "done" THEN pr[n].res ELSE NoResult]

\* the with block is left when every submitted probe has returned
\* (shutdown waits for the workers); then the results are read
Collect ==
    /\ UNCHANGED ivars
    /\ UNCHANGED <<url, repoT, platT, inv>>
    /\ UNCHANGED <<upc, names, queue, results>>
    /\ batch = "probing"
    /\ \A n \in Skills : probe[n].pc \in {"none", "done"}
    /\ report' = collect(probe, skills, tool)
    /\ batch' = "done"
    /\ UNCHANGED <<skills, tool, probe>>

\* the install and uninstall commands are not running
InstallRest ==
    /\ repo = "absent" /\ plat = [p \in Platforms |-> "absent"]
    /\ ledger = NoEntry /\ ledgerT = "none"
    /\ pc = "idle" /\ kind = "none" /\ cloned = FALSE
    /\ conflicts = <<>> /\ answer = "none" /\ force = FALSE
    /\ sel = {} /\ todo = <<>> /\ outcome = "none"
    /\ reached = {} /\ removed = {} /\ created = {}
    /\ repo0 = repo /\ plat0 = plat /\ ledger0 = ledger
    /\ prev = NoPrev /\ un = NoUn /\ partial = FALSE /\ crash = NoCrash

PInit ==
    /\ InstallRest
    /\ skills \in [Skills -> GitSkills \cup {PlainSkill, NoSkill}]
    /\ tool = "none"
    /\ probe = [n \in Skills |-> NoProbe]
    /\ batch = "idle"
    /\ report = [n \in Skills |-> NoResult]
    /\ upc = "idle" /\ names = <<>> /\ queue = <<>> /\ results = <<>>
    /\ url = UrlOfS /\ repoT = "absent" /\ platT = [p \in Platforms |-> "absent"]
    /\ inv = NoInv

PNext ==
    \/ \E t \in {"list", "menu"} : StartBatch(t)
    \/ \E n \in Skills : ProbeStart(n)
    \/ \E n \in Skills : ProbeFetch(n)
    \/ \E n \in Skills : ProbeBehind(n)
    \/ \E n \in Skills : ProbeAhead(n)
    \/ Collect

PSpec == PInit /\ [][PNext]_vars

\* the workers of the pool run, and the main thread goes on when it can
PFair == PSpec /\ WF_vars(PNext)

----------------------------------------------------------------------------
(* update_skills.py: the update of named skills                            *)

\* Largest number of names on the command line.
MaxNames == 2

\* What makes a step of update_git_repo exit non-zero:
\*   "head_fail"      git rev-parse HEAD fails (no commit yet)
\*   "fetch_fail"     git pull cannot reach the remote
\*   "no_upstream"    git pull has no tracking information
\*   "pull_conflict"  git pull stops: local changes or a merge conflict
UpdateFaults == {"head_fail", "fetch_fail", "no_upstream", "pull_conflict"}

UpdateSkills ==
    [kind : {"git"}, fault : {"none"}, behind : 0..MaxCount, ahead : 0..MaxCount]
    \cup [kind : {"git"}, fault : UpdateFaults, behind : {MaxCount}, ahead : {0}]

\* HEAD of the working copy: the upstream commits it contains and the
\* local commits on top of them
rev_parse_head(sk) == <<MaxCount - sk.behind, sk.ahead>>

\* git pull when it succeeds: nothing to do, a fast-forward, or a merge
\* commit on top of the local commits
git_pull(sk) ==
    IF sk.behind = 0 THEN sk
    ELSE IF sk.ahead = 0 THEN [sk EXCEPT !.behind = 0]
    ELSE [sk EXCEPT !.behind = 0, !.ahead = sk.ahead + 1]

\* update_git_repo reporting the pull result without comparing the heads
update_git_repo_nohead(sk) ==
    IF sk.fault \in UpdateFaults
    THEN [tag |-> "error", text |-> sk.fault, after |-> sk]
    ELSE [tag |-> "updated", text |-> "none", after |-> git_pull(sk)]

\* update_git_repo: the returned string ("error: " followed by the stderr
\* of the failed command) and the git state afterwards
update_git_repo(sk) ==
    IF sk.fault \in UpdateFaults
    THEN [tag |-> "error", text |-> sk.fault, after |-> sk]
    ELSE LET head_before == rev_parse_head(sk)
             sk1 == git_pull(sk)
             head_after == rev_parse_head(sk1)
         IN  [tag |-> IF head_before = head_after THEN "up_to_date" ELSE "updated",
              text |-> "none", after |-> sk1]

\* main, lines 227-235: the names that become targets, in order
RECURSIVE resolve_targets(_, _)
resolve_targets(ns, sks) ==
    IF ns = <<>> THEN <<>>
    ELSE (IF sks[Head(ns)].kind = "git" THEN <<Head(ns)>> ELSE <<>>)
         \o resolve_targets(Tail(ns), sks)

\* main, lines 227-235: what is printed for the names that are skipped
RECURSIVE resolve_skips(_, _)
resolve_skips(ns, sks) ==
    IF ns = <<>> THEN <<>>
    ELSE (IF sks[Head(ns)].kind = "missing"
          THEN <<[name |-> Head(ns), tag |-> "not_found", text |-> "none",
                  before |-> sks[Head(ns)], after |-> sks[Head(ns)]]>>
          ELSE IF sks[Head(ns)].kind # "git"
          THEN <<[name |-> Head(ns), tag |-> "not_git", text |-> "none",
                  before |-> sks[Head(ns)], after |-> sks[Head(ns)]]>>
          ELSE <<>>)
         \o resolve_skips(Tail(ns), sks)

\* get_all_git_skills: the git skills in sorted order
RECURSIVE get_all_git_skills(_, _)
get_all_git_skills(n, sks) ==
    IF n > NumSkills THEN <<>>
    ELSE (IF sks[n].kind = "git" THEN <<n>> ELSE <<>>)
         \o get_all_git_skills(n + 1, sks)

\* main, lines 223-251: with names the targets are the named git skills,
\* with --all every git skill; without a target main returns
StartUpdate(ns) ==
    /\ UNCHANGED ivars
    /\ UNCHANGED <<url, repoT, platT, inv>>
    /\ upc = "idle"
    /\ names' = ns
    /\ LET ts == IF ns # <<>> THEN resolve_targets(ns, skills)
                 ELSE get_all_git_skills(1, skills)
       IN  /\ queue' = ts
           /\ upc' = IF ts = <<>> THEN "done" ELSE "pull"
    /\ results' = resolve_skips(ns, skills)
    /\ tool' = "update"
    /\ UNCHANGED <<skills, probe, batch, report>>

\* the loop of main that stops at the first failed pull
PullNext_stop ==
    /\ UNCHANGED ivars
    /\ UNCHANGED <<url, repoT, platT, inv>>
    /\ upc = "pull" /\ queue # <<>>
    /\ LET n == Head(queue)
           r == update_git_repo(skills[n])
       IN  /\ skills' = [skills EXCEPT ![n] = r.after]
           /\ results' = Append(results, [name |-> n, tag |-> r.tag, text |-> r.text,
                                          before |-> skills[n], after |-> r.after])
           /\ queue' = IF r.tag = "error" THEN <<>> ELSE Tail(queue)
    /\ UNCHANGED <<tool, probe, batch, report, upc, names>>

\* one iteration of the loop of main, lines 257-267
PullNext ==
    /\ UNCHANGED ivars
    /\ UNCHANGED <<url, repoT, platT, inv>>
    /\ upc = "pull" /\ queue # <<>>
    /\ LET n == Head(queue)
           r == update_git_repo(skills[n])
       IN  /\ skills' = [skills EXCEPT ![n] = r.after]
           /\ results' = Append(results, [name |-> n, tag |-> r.tag, text |-> r.text,
                                          before |-> skills[n], after |-> r.after])
           /\ queue' = Tail(queue)
    /\ UNCHANGED <<tool, probe, batch, report, upc, names>>

\* main, line 269
UpdateDone ==
    /\ UNCHANGED ivars
    /\ UNCHANGED <<url, repoT, platT, inv>>
    /\ upc = "pull" /\ queue = <<>>
    /\ upc' = "done"
    /\ UNCHANGED <<skills, tool, probe, batch, report, names, queue, results>>

\* the sequences over S of length 0..k
RECURSIVE SeqsUpTo(_, _)
SeqsUpTo(S, k) ==
    IF k = 0 THEN {<<>>}
    ELSE LET shorter == SeqsUpTo(S, k - 1)
         IN  shorter \cup {Append(q, x) : q \in shorter, x \in S}

GInit ==
    /\ InstallRest
    /\ skills \in [Skills -> UpdateSkills \cup {PlainSkill, NoSkill}]
    /\ tool = "none"
    /\ probe = [n \in Skills |-> NoProbe]
    /\ batch = "idle"
    /\ report = [n \in Skills |-> NoResult]
    /\ upc = "idle" /\ names = <<>> /\ queue = <<>> /\ results = <<>>
    /\ url = UrlOfS /\ repoT = "absent" /\ platT = [p \in Platforms |-> "absent"]
    /\ inv = NoInv

GNext ==
    \/ \E ns \in SeqsUpTo(Skills, MaxNames) : StartUpdate(ns)
    \/ PullNext
    \/ UpdateDone

GSpec == GInit /\ [][GNext]_vars

----------------------------------------------------------------------------
(* Properties of the update probes                                         *)

\* the result of the probe of one skill when it runs alone
probe_alone(sk, t) ==
    IF sk.kind # "git" THEN Res("not_git", "none", 0)
    ELSE LET f == fetch_step(sk, t)
             b == behind_step(sk, t)
         IN  IF f.pc = "done" THEN f.res
             ELSE IF b.pc = "done" THEN b.res
             ELSE ahead_step(sk, t).res

\* C21: under every interleaving of the probes of a batch, a probe that has
\* returned holds the result of that probe run alone, and when the batch
\* has been read every submitted skill is reported with the result of its
\* own probe, whatever the probes of the other skills did.
C21_ProbeIsolation ==
    /\ \A n \in Skills :
          probe[n].pc = "done" => probe[n].res = probe_alone(skills[n], tool)
    /\ batch = "done" =>
          \A n \in Skills :
             report[n] = IF n \in submitted(skills, tool)
                         THEN probe_alone(skills[n], tool) ELSE NoResult

C21_Witness ==
    /\ batch = "done"
    /\ \E a, b \in Skills :
          /\ a < b
          /\ report[a].msg \in {"timeout", "git_error"}
          /\ report[b].msg \in {"behind", "new_commits"}
          /\ report[b].n = skills[b].behind

\* the status the claim gives to the git state of a skill
StatusClass(sk) ==
    IF sk.fault \in {"fetch_fail", "fetch_hang", "no_upstream"} THEN "indeterminate"
    ELSE IF sk.fault # "none" THEN "other"
    ELSE IF sk.behind > 0 THEN "behind"
    ELSE IF sk.ahead > 0 THEN "ahead"
    ELSE "even"

\* the status value of a reported result: the status code of
\* check_git_remote_status, the pair of check_updates_available
StatusValue(res, t) == IF t = "list" THEN <<res.code>> ELSE <<res.code, res.msg>>

\* C22 (as claimed): two git skills of a batch whose git states fall into
\* different ones of behind, ahead, even and indeterminate are reported
\* with different status values.
C22_StatusesDistinct ==
    batch = "done" =>
        \A a, b \in submitted(skills, tool) :
            (/\ skills[a].kind = "git" /\ skills[b].kind = "git"
             /\ StatusClass(skills[a]) # "other" /\ StatusClass(skills[b]) # "other"
             /\ StatusClass(skills[a]) # StatusClass(skills[b])) =>
                StatusValue(report[a], tool) # StatusValue(report[b], tool)

\* C23 (as claimed): every batch of probes that was started is read to its
\* end.
C23_BatchTerminates == (batch = "probing") ~> (batch = "done")

----------------------------------------------------------------------------
(* Properties of update                                                    *)

\* the records of results that stand for a call of update_git_repo
Pulled(r) == r.tag \in {"up_to_date", "updated", "error"}

\* C24: every call of update_git_repo ends with one of three outcomes:
\* error, with the diagnostic of the failed command and HEAD where it was,
\* exactly when a git step failed; otherwise up_to_date exactly when HEAD
\* after the pull is HEAD before it, and updated exactly when HEAD moved;
\* a skill 3 commits behind and 0 ahead whose pull succeeds is reported
\* updated and is then even with its upstream.
C24_UpdateOutcomes ==
    \A i \in DOMAIN results :
        LET r == results[i]
            failed == r.before.fault \in UpdateFaults
            moved == rev_parse_head(r.after) # rev_parse_head(r.before)
        IN  Pulled(r) =>
              /\ r.tag = "error" <=> failed
              /\ r.tag = "error" => (r.text = r.before.fault /\ ~moved)
              /\ r.tag = "up_to_date" <=> (~failed /\ ~moved)
              /\ r.tag = "updated" <=> (~failed /\ moved)
              /\ (~failed /\ r.before.behind = 3 /\ r.before.ahead = 0) =>
                    /\ r.tag = "updated"
                    /\ r.after.behind = 0 /\ r.after.ahead = 0
                    /\ rev_parse_head(r.after) = <<MaxCount, 0>>

C24_Witness ==
    /\ upc = "done"
    /\ \E i, j \in DOMAIN results :
          /\ i < j
          /\ results[i].tag = "updated"
          /\ results[i].before.behind = 3 /\ results[i].before.ahead = 0
          /\ results[j].tag \in {"up_to_date", "error"}

\* C25: when an update with names has ended, every name without a
\* repository entry or without version-control metadata has been reported
\* and skipped and was never pulled, and update_git_repo has been called
\* once for each named git skill, in the order of the names, whatever the
\* outcome of the pulls before it.
C25_BatchContinues ==
    (upc = "done" /\ names # <<>>) =>
        /\ SelectSeq(results, LAMBDA r : ~Pulled(r)) = resolve_skips(names, skills)
        /\ \A i \in DOMAIN results :
              Pulled(results[i]) <=> results[i].before.kind = "git"
        /\ LET pulls == SelectSeq(results, Pulled)
               gits == SelectSeq(names, LAMBDA n : skills[n].kind = "git")
           IN  /\ Len(pulls) = Len(gits)
               /\ \A i \in DOMAIN pulls : pulls[i].name = gits[i]

C25_Witness ==
    /\ upc = "done" /\ Len(names) >= 2
    /\ Len(results) >= 2
    /\ results[1].tag \in {"error", "not_found", "not_git"}
    /\ results[Len(results)].tag = "updated"

----------------------------------------------------------------------------
(* Properties of the location prober                                       *)

\* C26: check_path_status classifies every platform location: nothing at
\* the path is absent; a symlink whose target does not exist is
\* broken_symlink; a symlink to the canonical path, when that is an existing
\* directory or file, is owned_symlink; every other symlink is
\* foreign_symlink; a real directory is foreign_directory.  After an
\* uninstall that removed the canonical copy, every platform location that
\* probed as owned before and was not itself removed probes as
\* broken_symlink.
C26_ProbeClassification ==
    /\ \A p \in Platforms :
          LET e == plat[p]
              st == check_path_status(e, repo)
              dangling == \/ e = "link_gone"
                          \/ e = "link_canon" /\ repo \in {"absent", "link_gone"}
              owned == e = "link_canon" /\ repo \in {"dir", "file"}
          IN  /\ st = "absent" <=> e = "absent"
              /\ st = "broken_symlink" <=> dangling
              /\ st = "owned_symlink" <=> owned
              /\ st = "foreign_symlink" <=> (IsSymlink(e) /\ ~dangling /\ ~owned)
              /\ st = "foreign_directory" <=> e = "dir"
    /\ (un.result = "complete" /\ RepoLoc \in un.targets) =>
          \A p \in Platforms \ un.targets :
              check_path_status(plat0[p], repo0) = "owned_symlink"
                  => check_path_status(plat[p], repo) = "broken_symlink"

C26_Witness ==
    /\ un.result = "complete" /\ RepoLoc \in un.targets
    /\ \E p \in Platforms \ un.targets :
          /\ check_path_status(plat0[p], repo0) = "owned_symlink"
          /\ check_path_status(plat[p], repo) = "broken_symlink"

----------------------------------------------------------------------------
(* Properties across skills                                                *)

\* C27 (as claimed): the canonical path that an install from a git URL
\* writes to is a strict child of the repository root; no run of install or
\* uninstall removes the repository root, and the repository entry, the
\* platform locations and the ledger entry of the other skill t stay as
\* they were.
C27_OnlyOwnSkillTouched ==
    /\ (kind = "git" /\ "install_to_repo" \in reached) =>
          StrictChild(get_skill_name_from_url(url))
    /\ RootLoc \notin removed
    /\ repoT = "dir"
    /\ \A p \in Platforms : platT[p] = "link"
    /\ ledgerT = "live"

\* C28 (as claimed): between commands, when the ledger has an entry of s
\* the canonical directory of s is present, and every recorded target that
\* is a symlink created by install resolves to that directory.
C28_LedgerMatchesRepository ==
    (pc \in {"idle", "done"} /\ ledger.has) =>
        /\ repo = "dir"
        /\ \A t \in ledger.targets :
              plat[t] = "link_canon" =>
                  check_path_status(plat[t], repo) = "owned_symlink"

\* both invocations are over
BothSaved == inv.A.pc \in {"saved", "raised"} /\ inv.B.pc \in {"saved", "raised"}

\* the final ledger has the entry of each installed skill and no entry of
\* each removed skill
ReflectsBoth ==
    /\ inv.A.op = "install" => ledger.has
    /\ inv.A.op = "uninstall" => ~ledger.has
    /\ inv.B.op = "install" => ledgerT = "live"
    /\ inv.B.op = "uninstall" => ledgerT = "none"

\* C29 (as claimed): when both invocations are over, in whatever order
\* their loads and saves were interleaved, the ledger reflects both.
C29_NoLostUpdate == BothSaved => ReflectsBoth

\* C29 (amended): when the load-modify-save steps of the two invocations
\* did not overlap, the ledger reflects both once both are over.
C29_NoLostUpdateWhenSerialized == (BothSaved /\ ~inv.overlap) => ReflectsBoth

C29_Witness ==
    /\ BothSaved /\ ~inv.overlap
    /\ inv.A.op = "install" /\ inv.B.op = "uninstall"
    /\ ~ledger0.has /\ ledger.has /\ ledgerT = "none"
    /\ inv.A.t = "live"

====
